---- MODULE Spec2Model ----
(***************************************************************************)
(* The real-time message-routing server (WebSocket chat server): the       *)
(* connection registry `clients`, the channel set, the per-channel message *)
(* maps, the thread store, and the handlers of the "connection",           *)
(* "message" and "close" events.  Every handler runs to completion (Node's *)
(* single-threaded event loop), so each handler is one action.             *)
(***************************************************************************)
EXTENDS Integers, Sequences, FiniteSets, TLC

\* ------------------------------------------------------------------ bounds
\* Date.now() advances from 0 up to MaxClock milliseconds.
MaxClock == 1
\* At most MaxData items (messages, thread replies, reactions) are stored.
MaxData == 2

\* The WebSocket handles, named in the order in which the server accepts them.
Handles == << "ws1", "ws2" >>
Conns == { Handles[i] : i \in 1..Len(Handles) }
\* The 9-character suffixes Math.random().toString(36).substring(2, 11) yields.
Rands == {"k3x", "q9z"}
Usernames == {"alice", "bob"}
Contents == {"hi"}
Emojis == {"+1"}

\* ------------------------------------------------------- program constants
HARDCODED_PASSWORD == "password"
Passwords == {HARDCODED_PASSWORD, "letmein"}

\* Channel names are strings; a string is modelled as the tuple of its
\* characters so that normalisation can be computed character by character.
General == <<"g", "e", "n", "e", "r", "a", "l">>
Dev == <<"d", "e", "v">>
Ops == <<"o", "p", "s">>
\* Raw names a client may put in a create_channel envelope ("" included).
RawNames == { <<"D", "e", "v", "!">>, Dev, <<"O", "p", "s">>, <<"!", " ">>, <<>>,
              General }
\* Names a client may put in a switch_channel envelope ("" and an unknown one).
SwitchNames == { General, Dev, <<"x">>, <<>> }

UpperCase == <<"A", "B", "C", "D", "E", "F", "G", "H", "I", "J", "K", "L", "M",
               "N", "O", "P", "Q", "R", "S", "T", "U", "V", "W", "X", "Y", "Z">>
LowerCase == <<"a", "b", "c", "d", "e", "f", "g", "h", "i", "j", "k", "l", "m",
               "n", "o", "p", "q", "r", "s", "t", "u", "v", "w", "x", "y", "z">>
Digits == {"0", "1", "2", "3", "4", "5", "6", "7", "8", "9"}

Range(s) == { s[i] : i \in 1..Len(s) }

\* String.prototype.toLowerCase on one character.
toLowerCaseChar(ch) ==
  IF \E i \in 1..Len(UpperCase) : UpperCase[i] = ch
  THEN LowerCase[CHOOSE i \in 1..Len(UpperCase) : UpperCase[i] = ch]
  ELSE ch

toLowerCase(str) == [i \in 1..Len(str) |-> toLowerCaseChar(str[i])]

\* The character class [a-z0-9-] of the create_channel regular expression.
AllowedChar(ch) == ch \in Range(LowerCase) \cup Digits \cup {"-"}

\* rawChannelName.toLowerCase().replace(/[^a-z0-9-]/g, "")
NormalizeChannelName(raw) == SelectSeq(toLowerCase(raw), AllowedChar)

VARIABLES
  readyState,         \* ws.readyState of every handle
  wssClients,         \* wss.clients, in insertion (connection) order
  clients,            \* Map<WebSocket, ClientInfo>
  channels,           \* Set<string>
  messagesByChannel,  \* Map<string, Map<string, ChatMessage>>, insertion-ordered
  threadMessages,     \* Map<string, ChatMessage[]>
  now,                \* Date.now()
  sentSoFar           \* per handle: it has sent "none", only "badjoin"s, or "other"

vars == << readyState, wssClients, clients, channels, messagesByChannel,
           threadMessages, now, sentSoFar >>

\* ------------------------------------------------------------------ helpers
\* `${Date.now()}-${Math.random().toString(36).substring(2, 11)}`
generateId(t, r) == << t, r >>

\* An id no message ever has, and the empty string.
UnknownId == << -1, "zzz" >>
EmptyId == << >>

\* The values of an insertion-ordered Map kept as a sequence of entries.
MapHas(map, id) == \E i \in 1..Len(map) : map[i].id = id
MapGet(map, id) == map[CHOOSE i \in 1..Len(map) : map[i].id = id]
\* Map.prototype.set: an existing key keeps its position, a new key is appended.
MapSet(map, id, value) ==
  IF MapHas(map, id)
  THEN [i \in 1..Len(map) |-> IF map[i].id = id THEN value ELSE map[i]]
  ELSE Append(map, value)

\* ws.send(JSON.stringify(message)) on one socket.
Send(ws, message) == << [to |-> ws, env |-> message] >>

\* The sends of a forEach over wss.clients that sends to the sockets in `ok`.
SendEach(ok, message) ==
  LET targets == SelectSeq(wssClients, LAMBDA c : c \in ok)
  IN [i \in 1..Len(targets) |-> [to |-> targets[i], env |-> message]]

\* A broadcast that does not look at the ready state of the sockets.
broadcast_SkipsReadyState(message, channel, cl, rs) ==
  SendEach({ c \in DOMAIN cl : cl[c].channel = channel }, message)

\* A broadcast that forgets to compare the session's channel.
broadcast_AnyChannel(message, channel, cl, rs) ==
  SendEach({ c \in DOMAIN cl : rs[c] = "OPEN" }, message)

\* A broadcast that lets a socket without a session pass the channel test.
broadcast_NoSessionPasses(message, channel, cl, rs) ==
  SendEach({ c \in Conns : /\ rs[c] = "OPEN"
                            /\ c \in DOMAIN cl => cl[c].channel = channel }, message)

\* broadcast(message, channel), with the registry and ready states it reads.
broadcast(message, channel, cl, rs) ==
  SendEach({ c \in DOMAIN cl : rs[c] = "OPEN" /\ cl[c].channel = channel }, message)

\* A broadcast to all that skips the sockets without a session.
broadcastToAll_SessionsOnly(message, rs) ==
  SendEach({ c \in DOMAIN clients : rs[c] = "OPEN" }, message)

\* broadcastToAll(message)
broadcastToAll(message, rs) ==
  SendEach({ c \in Conns : rs[c] = "OPEN" }, message)

\* A thread broadcast that reaches every session with some thread open.
broadcastToThread_AnyThread(message, threadId, cl, rs) ==
  SendEach({ c \in DOMAIN cl : /\ rs[c] = "OPEN"
                               /\ "activeThreadId" \in DOMAIN cl[c] }, message)

\* broadcastToThread(message, threadId)
broadcastToThread(message, threadId, cl, rs) ==
  SendEach({ c \in DOMAIN cl : /\ rs[c] = "OPEN"
                               /\ "activeThreadId" \in DOMAIN cl[c]
                               /\ cl[c].activeThreadId = threadId }, message)

\* Array.from(channels): the model keeps the channel set unordered.
channelListMessage(chs) ==
  [type |-> "channel_list", channels |-> chs, username |-> "", content |-> "",
   timestamp |-> now]

\* sendChannelList(ws)
sendChannelList(ws, chs) == Send(ws, channelListMessage(chs))

\* sendChannelHistory(ws, channel)
sendChannelHistory(ws, channel, mbc) ==
  LET messages == IF channel \in DOMAIN mbc THEN mbc[channel] ELSE << >>
  IN Send(ws, [type |-> "history", channel |-> channel, messages |-> messages,
               username |-> "", content |-> "", timestamp |-> now])

\* threadMessages.get(threadId) ?? []
Replies(tm, threadId) == IF threadId \in DOMAIN tm THEN tm[threadId] ELSE << >>

\* sendThreadHistory(ws, threadId, channel)
sendThreadHistory(ws, threadId, channel, mbc, tm) ==
  IF channel \notin DOMAIN mbc THEN << >>
  ELSE IF ~MapHas(mbc[channel], threadId) THEN << >>
  ELSE Send(ws, [type |-> "thread_history", threadId |-> threadId,
                 messages |-> Replies(tm, threadId),
                 parentMessage |-> MapGet(mbc[channel], threadId),
                 username |-> "", content |-> "", timestamp |-> now])

\* Array.prototype.indexOf, 0 standing for -1.
indexOf(arr, x) ==
  IF \E i \in 1..Len(arr) : arr[i] = x
  THEN CHOOSE i \in 1..Len(arr) : arr[i] = x /\ \A j \in 1..(i - 1) : arr[j] # x
  ELSE 0

\* Array.prototype.splice(index, 1)
splice(arr, idx) == [i \in 1..(Len(arr) - 1) |-> IF i < idx THEN arr[i] ELSE arr[i + 1]]

\* A toggle that pushes the username without looking for it first.
ToggleReaction_AlwaysPush(reactions, emoji, username) ==
  IF emoji \notin DOMAIN reactions
  THEN [e \in DOMAIN reactions \cup {emoji} |->
          IF e = emoji THEN << username >> ELSE reactions[e]]
  ELSE [reactions EXCEPT ![emoji] = Append(@, username)]

\* A toggle that leaves the emoji key behind when its last user is removed.
ToggleReaction_KeepEmptyKey(reactions, emoji, username) ==
  IF emoji \notin DOMAIN reactions
  THEN [e \in DOMAIN reactions \cup {emoji} |->
          IF e = emoji THEN << username >> ELSE reactions[e]]
  ELSE LET emojiReactions == reactions[emoji]
           userIndex == indexOf(emojiReactions, username)
       IN IF userIndex = 0
          THEN [reactions EXCEPT ![emoji] = Append(emojiReactions, username)]
          ELSE [reactions EXCEPT ![emoji] = splice(emojiReactions, userIndex)]

\* The toggle of the reaction handler on targetMessage.reactions.
ToggleReaction(reactions, emoji, username) ==
  IF emoji \notin DOMAIN reactions
  THEN [e \in DOMAIN reactions \cup {emoji} |->
          IF e = emoji THEN << username >> ELSE reactions[e]]
  ELSE LET emojiReactions == reactions[emoji]
           userIndex == indexOf(emojiReactions, username)
       IN IF userIndex = 0
          THEN [reactions EXCEPT ![emoji] = Append(emojiReactions, username)]
          ELSE LET rest == splice(emojiReactions, userIndex)
               IN IF Len(rest) = 0
                  THEN [e \in DOMAIN reactions \ {emoji} |-> reactions[e]]
                  ELSE [reactions EXCEPT ![emoji] = rest]

\* What one run of a handler does: the state it leaves and the envelopes it
\* sends, in order.
Result(rs, cl, chs, mbc, tm, sends) ==
  [readyState |-> rs, clients |-> cl, channels |-> chs, messagesByChannel |-> mbc,
   threadMessages |-> tm, sends |-> sends]

\* A handler run that returns early: nothing changes, nothing is sent.
Ignored == Result(readyState, clients, channels, messagesByChannel, threadMessages,
                  << >>)

\* The state variables take the values a handler run leaves.
Apply(res) ==
  /\ readyState' = res.readyState
  /\ clients' = res.clients
  /\ channels' = res.channels
  /\ messagesByChannel' = res.messagesByChannel
  /\ threadMessages' = res.threadMessages

\* The socket has sent one more envelope: a wrong-password join, or another.
NoteSent(ws, bad) ==
  sentSoFar' = [sentSoFar EXCEPT
                  ![ws] = IF bad /\ @ # "other" THEN "badjoin" ELSE "other"]

\* The sum of f[x] over the elements x of a finite set S.
RECURSIVE SumOver(_, _)
SumOver(S, f) ==
  IF S = {} THEN 0
  ELSE LET x == CHOOSE y \in S : TRUE IN f[x] + SumOver(S \ {x}, f)

\* The number of stored messages, reactions and thread replies.
DataSize(mbc, tm) ==
  LET reactionsOf(m) ==
        SumOver(DOMAIN m.reactions, [e \in DOMAIN m.reactions |-> Len(m.reactions[e])])
      channelSize(ch) ==
        Len(mbc[ch])
        + SumOver(1..Len(mbc[ch]), [i \in 1..Len(mbc[ch]) |-> reactionsOf(mbc[ch][i])])
  IN SumOver(DOMAIN mbc, [ch \in DOMAIN mbc |-> channelSize(ch)])
     + SumOver(DOMAIN tm, [t \in DOMAIN tm |-> Len(tm[t])])

\* The ids of the stored messages, over all channels.
StoredIds ==
  UNION { { messagesByChannel[ch][i].id : i \in 1..Len(messagesByChannel[ch]) } :
          ch \in DOMAIN messagesByChannel }
\* The ids of the stored thread replies.
ReplyIds ==
  UNION { { threadMessages[t][i].id : i \in 1..Len(threadMessages[t]) } :
          t \in DOMAIN threadMessages }
StampedIds == StoredIds \cup ReplyIds
\* The ids a client can have learnt from stored messages, plus two it cannot.
IdInputs == StoredIds \cup { UnknownId, EmptyId }
\* The usernames a handle may join under: names matter only by equality, so
\* the first socket's name is fixed and the second one's is equal or different.
JoinNames(ws) == IF ws = Handles[1] THEN {"alice"} ELSE Usernames
\* The suffixes Math.random() may yield now: suffixes matter only by equality,
\* so it is one already used in this millisecond (a collision) or one fresh one.
RandChoices ==
  LET used == { r \in Rands : generateId(now, r) \in StampedIds }
  IN used \cup (IF used = Rands THEN {} ELSE { CHOOSE r \in Rands : r \notin used })

\* ----------------------------------------------------------------- handlers
\* A connection handler that sends the new socket nothing.
onConnection_NoList(ws) ==
  Result([readyState EXCEPT ![ws] = "OPEN"], clients, channels, messagesByChannel,
         threadMessages, << >>)

\* wss.on("connection"): the new socket gets the channel list.
onConnection(ws) ==
  Result([readyState EXCEPT ![ws] = "OPEN"], clients, channels, messagesByChannel,
         threadMessages, sendChannelList(ws, channels))

\* A join handler whose wrong-password branch lacks its return.
onJoin_NoReturn(ws, username, password) ==
  LET channel == General
      cl == [c \in DOMAIN clients \cup {ws} |->
               IF c = ws THEN [username |-> username, channel |-> channel]
               ELSE clients[c]]
      authError == [type |-> "auth_error", username |-> "",
                    content |-> "Invalid password", timestamp |-> now]
      authSuccess == [type |-> "auth_success", username |-> username,
                      content |-> "Authentication successful", timestamp |-> now]
      joinMessage == [type |-> "join", username |-> username,
                      content |-> << username, "joined", channel >>,
                      timestamp |-> now, channel |-> channel]
  IN Result(readyState, cl, channels, messagesByChannel, threadMessages,
            (IF password # HARDCODED_PASSWORD THEN Send(ws, authError) ELSE << >>)
            \o Send(ws, authSuccess)
            \o sendChannelHistory(ws, channel, messagesByChannel)
            \o broadcast(joinMessage, channel, cl, readyState))

\* A join handler that reports the wrong password to every open socket.
onJoin_ErrorToAll(ws, username, password) ==
  IF password # HARDCODED_PASSWORD
  THEN Result(readyState, clients, channels, messagesByChannel, threadMessages,
              broadcastToAll([type |-> "auth_error", username |-> "",
                              content |-> "Invalid password", timestamp |-> now],
                             readyState))
  ELSE LET channel == General
           cl == [c \in DOMAIN clients \cup {ws} |->
                    IF c = ws THEN [username |-> username, channel |-> channel]
                    ELSE clients[c]]
           authSuccess == [type |-> "auth_success", username |-> username,
                           content |-> "Authentication successful",
                           timestamp |-> now]
           joinMessage == [type |-> "join", username |-> username,
                           content |-> << username, "joined", channel >>,
                           timestamp |-> now, channel |-> channel]
       IN Result(readyState, cl, channels, messagesByChannel, threadMessages,
                 Send(ws, authSuccess)
                 \o sendChannelHistory(ws, channel, messagesByChannel)
                 \o broadcast(joinMessage, channel, cl, readyState))

\* A join handler that replays the channel list after auth_success.
onJoin_WithChannelList(ws, username, password) ==
  IF password # HARDCODED_PASSWORD
  THEN Result(readyState, clients, channels, messagesByChannel, threadMessages,
              Send(ws, [type |-> "auth_error", username |-> "",
                        content |-> "Invalid password", timestamp |-> now]))
  ELSE LET channel == General
           cl == [c \in DOMAIN clients \cup {ws} |->
                    IF c = ws THEN [username |-> username, channel |-> channel]
                    ELSE clients[c]]
           authSuccess == [type |-> "auth_success", username |-> username,
                           content |-> "Authentication successful",
                           timestamp |-> now]
           joinMessage == [type |-> "join", username |-> username,
                           content |-> << username, "joined", channel >>,
                           timestamp |-> now, channel |-> channel]
       IN Result(readyState, cl, channels, messagesByChannel, threadMessages,
                 Send(ws, authSuccess)
                 \o sendChannelList(ws, channels)
                 \o sendChannelHistory(ws, channel, messagesByChannel)
                 \o broadcast(joinMessage, channel, cl, readyState))

\* ws.on("message"), message.type === "join".
onJoin(ws, username, password) ==
  IF password # HARDCODED_PASSWORD
  THEN Result(readyState, clients, channels, messagesByChannel, threadMessages,
              Send(ws, [type |-> "auth_error", username |-> "",
                        content |-> "Invalid password", timestamp |-> now]))
  ELSE LET channel == General
           cl == [c \in DOMAIN clients \cup {ws} |->
                    IF c = ws THEN [username |-> username, channel |-> channel]
                    ELSE clients[c]]
           authSuccess == [type |-> "auth_success", username |-> username,
                           content |-> "Authentication successful",
                           timestamp |-> now]
           joinMessage == [type |-> "join", username |-> username,
                           content |-> << username, "joined", channel >>,
                           timestamp |-> now, channel |-> channel]
       IN Result(readyState, cl, channels, messagesByChannel, threadMessages,
                 Send(ws, authSuccess)
                 \o sendChannelHistory(ws, channel, messagesByChannel)
                 \o broadcast(joinMessage, channel, cl, readyState))

\* ws.on("message"), message.type === "message".
onMessage(ws, content, r) ==
  IF ws \notin DOMAIN clients THEN Ignored
  ELSE LET clientInfo == clients[ws]
           id == generateId(now, r)
           chatMessage == [type |-> "message", id |-> id,
                           username |-> clientInfo.username, content |-> content,
                           timestamp |-> now, reactions |-> << >>,
                           channel |-> clientInfo.channel]
           mbc == IF clientInfo.channel \in DOMAIN messagesByChannel
                  THEN [messagesByChannel EXCEPT
                          ![clientInfo.channel] = MapSet(@, id, chatMessage)]
                  ELSE messagesByChannel
       IN Result(readyState, clients, channels, mbc, threadMessages,
                 broadcast(chatMessage, clientInfo.channel, clients, readyState))

\* A reaction handler that builds its envelope before it toggles.
onReaction_StaleMapping(ws, messageId, emoji) ==
  IF ws \notin DOMAIN clients THEN Ignored
  ELSE IF messageId = EmptyId \/ emoji = "" THEN Ignored
  ELSE IF clients[ws].channel \notin DOMAIN messagesByChannel THEN Ignored
  ELSE IF ~MapHas(messagesByChannel[clients[ws].channel], messageId) THEN Ignored
  ELSE LET clientInfo == clients[ws]
           targetMessage == MapGet(messagesByChannel[clientInfo.channel], messageId)
           reactions == ToggleReaction(targetMessage.reactions, emoji,
                                       clientInfo.username)
           reactionMessage == [type |-> "reaction", messageId |-> messageId,
                               emoji |-> emoji, username |-> clientInfo.username,
                               content |-> "", timestamp |-> now,
                               reactions |-> targetMessage.reactions]
           mbc == [messagesByChannel EXCEPT ![clientInfo.channel] =
                     MapSet(@, messageId,
                            [targetMessage EXCEPT !.reactions = reactions])]
       IN Result(readyState, clients, channels, mbc, threadMessages,
                 broadcast(reactionMessage, clientInfo.channel, clients, readyState))

\* ws.on("message"), message.type === "reaction".
onReaction(ws, messageId, emoji) ==
  IF ws \notin DOMAIN clients THEN Ignored
  ELSE IF messageId = EmptyId \/ emoji = "" THEN Ignored
  ELSE IF clients[ws].channel \notin DOMAIN messagesByChannel THEN Ignored
  ELSE IF ~MapHas(messagesByChannel[clients[ws].channel], messageId) THEN Ignored
  ELSE LET clientInfo == clients[ws]
           targetMessage == MapGet(messagesByChannel[clientInfo.channel], messageId)
           reactions == ToggleReaction(targetMessage.reactions, emoji,
                                       clientInfo.username)
           reactionMessage == [type |-> "reaction", messageId |-> messageId,
                               emoji |-> emoji, username |-> clientInfo.username,
                               content |-> "", timestamp |-> now,
                               reactions |-> reactions]
           mbc == [messagesByChannel EXCEPT ![clientInfo.channel] =
                     MapSet(@, messageId,
                            [targetMessage EXCEPT !.reactions = reactions])]
       IN Result(readyState, clients, channels, mbc, threadMessages,
                 broadcast(reactionMessage, clientInfo.channel, clients, readyState))

\* A switch_channel handler that does not ask channels.has(newChannel).
onSwitchChannel_NoKnownCheck(ws, newChannel) ==
  IF ws \notin DOMAIN clients THEN Ignored
  ELSE IF newChannel = << >> THEN Ignored
  ELSE LET clientInfo == clients[ws]
           oldChannel == clientInfo.channel
           leaveMessage == [type |-> "leave", username |-> clientInfo.username,
                            content |-> << clientInfo.username, "left", oldChannel >>,
                            timestamp |-> now, channel |-> oldChannel]
           cl == [clients EXCEPT ![ws].channel = newChannel]
           joinMessage == [type |-> "join", username |-> clientInfo.username,
                           content |-> << clientInfo.username, "joined", newChannel >>,
                           timestamp |-> now, channel |-> newChannel]
       IN Result(readyState, cl, channels, messagesByChannel, threadMessages,
                 broadcast(leaveMessage, oldChannel, clients, readyState)
                 \o sendChannelHistory(ws, newChannel, messagesByChannel)
                 \o broadcast(joinMessage, newChannel, cl, readyState))

\* A switch_channel handler that moves the session before it announces the leave.
onSwitchChannel_LeaveAfterMove(ws, newChannel) ==
  IF ws \notin DOMAIN clients THEN Ignored
  ELSE IF newChannel = << >> \/ newChannel \notin channels THEN Ignored
  ELSE LET clientInfo == clients[ws]
           oldChannel == clientInfo.channel
           leaveMessage == [type |-> "leave", username |-> clientInfo.username,
                            content |-> << clientInfo.username, "left", oldChannel >>,
                            timestamp |-> now, channel |-> oldChannel]
           cl == [clients EXCEPT ![ws].channel = newChannel]
           joinMessage == [type |-> "join", username |-> clientInfo.username,
                           content |-> << clientInfo.username, "joined", newChannel >>,
                           timestamp |-> now, channel |-> newChannel]
       IN Result(readyState, cl, channels, messagesByChannel, threadMessages,
                 broadcast(leaveMessage, oldChannel, cl, readyState)
                 \o sendChannelHistory(ws, newChannel, messagesByChannel)
                 \o broadcast(joinMessage, newChannel, cl, readyState))

\* A switch_channel handler that closes the session's thread as it moves.
onSwitchChannel_ClearsThread(ws, newChannel) ==
  IF ws \notin DOMAIN clients THEN Ignored
  ELSE IF newChannel = << >> \/ newChannel \notin channels THEN Ignored
  ELSE LET clientInfo == clients[ws]
           oldChannel == clientInfo.channel
           leaveMessage == [type |-> "leave", username |-> clientInfo.username,
                            content |-> << clientInfo.username, "left", oldChannel >>,
                            timestamp |-> now, channel |-> oldChannel]
           cl == [clients EXCEPT ![ws] = [username |-> clientInfo.username,
                                          channel |-> newChannel]]
           joinMessage == [type |-> "join", username |-> clientInfo.username,
                           content |-> << clientInfo.username, "joined", newChannel >>,
                           timestamp |-> now, channel |-> newChannel]
       IN Result(readyState, cl, channels, messagesByChannel, threadMessages,
                 broadcast(leaveMessage, oldChannel, clients, readyState)
                 \o sendChannelHistory(ws, newChannel, messagesByChannel)
                 \o broadcast(joinMessage, newChannel, cl, readyState))

\* ws.on("message"), message.type === "switch_channel".
onSwitchChannel(ws, newChannel) ==
  IF ws \notin DOMAIN clients THEN Ignored
  ELSE IF newChannel = << >> \/ newChannel \notin channels THEN Ignored
  ELSE LET clientInfo == clients[ws]
           oldChannel == clientInfo.channel
           leaveMessage == [type |-> "leave", username |-> clientInfo.username,
                            content |-> << clientInfo.username, "left", oldChannel >>,
                            timestamp |-> now, channel |-> oldChannel]
           cl == [clients EXCEPT ![ws].channel = newChannel]
           joinMessage == [type |-> "join", username |-> clientInfo.username,
                           content |-> << clientInfo.username, "joined", newChannel >>,
                           timestamp |-> now, channel |-> newChannel]
       IN Result(readyState, cl, channels, messagesByChannel, threadMessages,
                 broadcast(leaveMessage, oldChannel, clients, readyState)
                 \o sendChannelHistory(ws, newChannel, messagesByChannel)
                 \o broadcast(joinMessage, newChannel, cl, readyState))

\* A create_channel handler that does not ask channels.has(channelName).
onCreateChannel_NoHasCheck(ws, rawChannelName) ==
  IF rawChannelName = << >> THEN Ignored
  ELSE LET channelName == NormalizeChannelName(rawChannelName)
       IN IF channelName # << >>
          THEN LET chs == channels \cup { channelName }
                   mbc == [ch \in DOMAIN messagesByChannel \cup { channelName } |->
                             IF ch = channelName THEN << >>
                             ELSE messagesByChannel[ch]]
               IN Result(readyState, clients, chs, mbc, threadMessages,
                         broadcastToAll(channelListMessage(chs), readyState))
          ELSE Ignored

\* A create_channel handler that keeps only the default and the new channel.
onCreateChannel_DropsOthers(ws, rawChannelName) ==
  IF rawChannelName = << >> THEN Ignored
  ELSE LET channelName == NormalizeChannelName(rawChannelName)
       IN IF channelName # << >> /\ channelName \notin channels
          THEN LET chs == { General, channelName }
                   mbc == [ch \in chs |->
                             IF ch = channelName THEN << >>
                             ELSE messagesByChannel[ch]]
               IN Result(readyState, clients, chs, mbc, threadMessages,
                         broadcastToAll(channelListMessage(chs), readyState))
          ELSE Ignored

\* ws.on("message"), message.type === "create_channel".
onCreateChannel(ws, rawChannelName) ==
  IF rawChannelName = << >> THEN Ignored
  ELSE LET channelName == NormalizeChannelName(rawChannelName)
       IN IF channelName # << >> /\ channelName \notin channels
          THEN LET chs == channels \cup { channelName }
                   mbc == [ch \in DOMAIN messagesByChannel \cup { channelName } |->
                             IF ch = channelName THEN << >>
                             ELSE messagesByChannel[ch]]
               IN Result(readyState, clients, chs, mbc, threadMessages,
                         broadcastToAll(channelListMessage(chs), readyState))
          ELSE Ignored

\* An open_thread handler that returns when the parent message is not found.
onOpenThread_RequiresParent(ws, threadId) ==
  IF ws \notin DOMAIN clients THEN Ignored
  ELSE IF threadId = EmptyId THEN Ignored
  ELSE IF clients[ws].channel \notin DOMAIN messagesByChannel THEN Ignored
  ELSE IF ~MapHas(messagesByChannel[clients[ws].channel], threadId) THEN Ignored
  ELSE LET clientInfo == clients[ws]
           info == [f \in DOMAIN clientInfo \cup {"activeThreadId"} |->
                      IF f = "activeThreadId" THEN threadId ELSE clientInfo[f]]
       IN Result(readyState, [clients EXCEPT ![ws] = info], channels,
                 messagesByChannel, threadMessages,
                 sendThreadHistory(ws, threadId, clientInfo.channel,
                                   messagesByChannel, threadMessages))

\* ws.on("message"), message.type === "open_thread".
onOpenThread(ws, threadId) ==
  IF ws \notin DOMAIN clients THEN Ignored
  ELSE IF threadId = EmptyId THEN Ignored
  ELSE LET clientInfo == clients[ws]
           info == [f \in DOMAIN clientInfo \cup {"activeThreadId"} |->
                      IF f = "activeThreadId" THEN threadId ELSE clientInfo[f]]
       IN Result(readyState, [clients EXCEPT ![ws] = info], channels,
                 messagesByChannel, threadMessages,
                 sendThreadHistory(ws, threadId, clientInfo.channel,
                                   messagesByChannel, threadMessages))

\* A thread_message handler that appends the reply even when no message with
\* the thread id is in the sender's channel.
onThreadMessage_NoParentGuard(ws, threadId, content, r) ==
  IF ws \notin DOMAIN clients THEN Ignored
  ELSE IF threadId = EmptyId THEN Ignored
  ELSE LET clientInfo == clients[ws]
           id == generateId(now, r)
           threadReply == [type |-> "thread_message", id |-> id,
                           threadId |-> threadId, username |-> clientInfo.username,
                           content |-> content, timestamp |-> now,
                           reactions |-> << >>]
           existingReplies == Append(Replies(threadMessages, threadId), threadReply)
           tm == [t \in DOMAIN threadMessages \cup { threadId } |->
                    IF t = threadId THEN existingReplies ELSE threadMessages[t]]
           found == /\ clientInfo.channel \in DOMAIN messagesByChannel
                    /\ MapHas(messagesByChannel[clientInfo.channel], threadId)
           parentMessage == MapGet(messagesByChannel[clientInfo.channel], threadId)
           parent == [f \in DOMAIN parentMessage \cup {"replyCount"} |->
                        IF f = "replyCount" THEN Len(existingReplies)
                        ELSE parentMessage[f]]
           updateMessage == [type |-> "message", id |-> parent.id,
                             username |-> parent.username,
                             content |-> parent.content,
                             timestamp |-> parent.timestamp,
                             reactions |-> parent.reactions,
                             replyCount |-> parent.replyCount,
                             channel |-> clientInfo.channel]
       IN IF found
          THEN Result(readyState, clients, channels,
                      [messagesByChannel EXCEPT ![clientInfo.channel] =
                         MapSet(@, threadId, parent)], tm,
                      broadcastToThread(threadReply, threadId, clients, readyState)
                      \o broadcast(updateMessage, clientInfo.channel, clients,
                                   readyState))
          ELSE Result(readyState, clients, channels, messagesByChannel, tm,
                      broadcastToThread(threadReply, threadId, clients, readyState))

\* A thread_message handler that returns unless the sender has this thread open.
onThreadMessage_RequiresOpenThread(ws, threadId, content, r) ==
  IF ws \notin DOMAIN clients THEN Ignored
  ELSE IF threadId = EmptyId THEN Ignored
  ELSE IF "activeThreadId" \notin DOMAIN clients[ws] THEN Ignored
  ELSE IF clients[ws].activeThreadId # threadId THEN Ignored
  ELSE IF clients[ws].channel \notin DOMAIN messagesByChannel THEN Ignored
  ELSE IF ~MapHas(messagesByChannel[clients[ws].channel], threadId) THEN Ignored
  ELSE LET clientInfo == clients[ws]
           parentMessage == MapGet(messagesByChannel[clientInfo.channel], threadId)
           id == generateId(now, r)
           threadReply == [type |-> "thread_message", id |-> id,
                           threadId |-> threadId, username |-> clientInfo.username,
                           content |-> content, timestamp |-> now,
                           reactions |-> << >>]
           existingReplies == Append(Replies(threadMessages, threadId), threadReply)
           tm == [t \in DOMAIN threadMessages \cup { threadId } |->
                    IF t = threadId THEN existingReplies ELSE threadMessages[t]]
           parent == [f \in DOMAIN parentMessage \cup {"replyCount"} |->
                        IF f = "replyCount" THEN Len(existingReplies)
                        ELSE parentMessage[f]]
           mbc == [messagesByChannel EXCEPT ![clientInfo.channel] =
                     MapSet(@, threadId, parent)]
           updateMessage == [type |-> "message", id |-> parent.id,
                             username |-> parent.username,
                             content |-> parent.content,
                             timestamp |-> parent.timestamp,
                             reactions |-> parent.reactions,
                             replyCount |-> parent.replyCount,
                             channel |-> clientInfo.channel]
       IN Result(readyState, clients, channels, mbc, tm,
                 broadcastToThread(threadReply, threadId, clients, readyState)
                 \o broadcast(updateMessage, clientInfo.channel, clients, readyState))

\* A thread_message handler that puts the new reply first (unshift for push).
onThreadMessage_Unshift(ws, threadId, content, r) ==
  IF ws \notin DOMAIN clients THEN Ignored
  ELSE IF threadId = EmptyId THEN Ignored
  ELSE IF clients[ws].channel \notin DOMAIN messagesByChannel THEN Ignored
  ELSE IF ~MapHas(messagesByChannel[clients[ws].channel], threadId) THEN Ignored
  ELSE LET clientInfo == clients[ws]
           parentMessage == MapGet(messagesByChannel[clientInfo.channel], threadId)
           id == generateId(now, r)
           threadReply == [type |-> "thread_message", id |-> id,
                           threadId |-> threadId, username |-> clientInfo.username,
                           content |-> content, timestamp |-> now,
                           reactions |-> << >>]
           existingReplies == << threadReply >> \o Replies(threadMessages, threadId)
           tm == [t \in DOMAIN threadMessages \cup { threadId } |->
                    IF t = threadId THEN existingReplies ELSE threadMessages[t]]
           parent == [f \in DOMAIN parentMessage \cup {"replyCount"} |->
                        IF f = "replyCount" THEN Len(existingReplies)
                        ELSE parentMessage[f]]
           mbc == [messagesByChannel EXCEPT ![clientInfo.channel] =
                     MapSet(@, threadId, parent)]
           updateMessage == [type |-> "message", id |-> parent.id,
                             username |-> parent.username,
                             content |-> parent.content,
                             timestamp |-> parent.timestamp,
                             reactions |-> parent.reactions,
                             replyCount |-> parent.replyCount,
                             channel |-> clientInfo.channel]
       IN Result(readyState, clients, channels, mbc, tm,
                 broadcastToThread(threadReply, threadId, clients, readyState)
                 \o broadcast(updateMessage, clientInfo.channel, clients, readyState))

\* ws.on("message"), message.type === "thread_message".
onThreadMessage(ws, threadId, content, r) ==
  IF ws \notin DOMAIN clients THEN Ignored
  ELSE IF threadId = EmptyId THEN Ignored
  ELSE IF clients[ws].channel \notin DOMAIN messagesByChannel THEN Ignored
  ELSE IF ~MapHas(messagesByChannel[clients[ws].channel], threadId) THEN Ignored
  ELSE LET clientInfo == clients[ws]
           parentMessage == MapGet(messagesByChannel[clientInfo.channel], threadId)
           id == generateId(now, r)
           threadReply == [type |-> "thread_message", id |-> id,
                           threadId |-> threadId, username |-> clientInfo.username,
                           content |-> content, timestamp |-> now,
                           reactions |-> << >>]
           existingReplies == Append(Replies(threadMessages, threadId), threadReply)
           tm == [t \in DOMAIN threadMessages \cup { threadId } |->
                    IF t = threadId THEN existingReplies ELSE threadMessages[t]]
           parent == [f \in DOMAIN parentMessage \cup {"replyCount"} |->
                        IF f = "replyCount" THEN Len(existingReplies)
                        ELSE parentMessage[f]]
           mbc == [messagesByChannel EXCEPT ![clientInfo.channel] =
                     MapSet(@, threadId, parent)]
           updateMessage == [type |-> "message", id |-> parent.id,
                             username |-> parent.username,
                             content |-> parent.content,
                             timestamp |-> parent.timestamp,
                             reactions |-> parent.reactions,
                             replyCount |-> parent.replyCount,
                             channel |-> clientInfo.channel]
       IN Result(readyState, clients, channels, mbc, tm,
                 broadcastToThread(threadReply, threadId, clients, readyState)
                 \o broadcast(updateMessage, clientInfo.channel, clients, readyState))

\* A catch block that closes the socket that sent the unparseable data.
onMalformed_ClosesSocket(ws) ==
  Result([readyState EXCEPT ![ws] = "CLOSED"], clients, channels,
         messagesByChannel, threadMessages, << >>)

\* ws.on("message") with data JSON.parse rejects (the catch logs it), or with a
\* type no branch handles.
onMalformed(ws) == Ignored

\* A close handler that announces the leave but keeps the session.
onClose_KeepSession(ws) ==
  LET rs == [readyState EXCEPT ![ws] = "CLOSED"]
  IN IF ws \in DOMAIN clients
     THEN LET clientInfo == clients[ws]
              leaveMessage == [type |-> "leave", username |-> clientInfo.username,
                               content |-> << clientInfo.username, "left",
                                              clientInfo.channel >>,
                               timestamp |-> now, channel |-> clientInfo.channel]
          IN Result(rs, clients, channels, messagesByChannel, threadMessages,
                    broadcast(leaveMessage, clientInfo.channel, clients, rs))
     ELSE Result(rs, clients, channels, messagesByChannel, threadMessages, << >>)

\* ws.on("close"): the socket is CLOSED when the handler runs.
onClose(ws) ==
  LET rs == [readyState EXCEPT ![ws] = "CLOSED"]
  IN IF ws \in DOMAIN clients
     THEN LET clientInfo == clients[ws]
              leaveMessage == [type |-> "leave", username |-> clientInfo.username,
                               content |-> << clientInfo.username, "left",
                                              clientInfo.channel >>,
                               timestamp |-> now, channel |-> clientInfo.channel]
          IN Result(rs, [c \in DOMAIN clients \ {ws} |-> clients[c]], channels,
                    messagesByChannel, threadMessages,
                    broadcast(leaveMessage, clientInfo.channel, clients, rs))
     ELSE Result(rs, clients, channels, messagesByChannel, threadMessages, << >>)

\* --------------------------------------------------------------------- Init
Init ==
  /\ readyState = [c \in Conns |-> "CONNECTING"]
  /\ wssClients = << >>
  /\ clients = << >>
  /\ channels = { General }
  /\ messagesByChannel = (General :> << >>)
  /\ threadMessages = << >>
  /\ now = 0
  /\ sentSoFar = [c \in Conns |-> "none"]

\* ------------------------------------------------------------------ actions
\* The system clock advances.  Time is observed only through the ids and
\* timestamps stamped with it, so a tick is taken only after a stamp.
Tick ==
  /\ now < MaxClock
  /\ \E id \in StampedIds : id[1] = now
  /\ now' = now + 1
  /\ UNCHANGED << readyState, wssClients, clients, channels, messagesByChannel,
                  threadMessages, sentSoFar >>

\* The server accepts the next socket.
Connect(ws) ==
  /\ readyState[ws] = "CONNECTING"
  /\ \A i \in 1..Len(Handles) :
       Handles[i] = ws => \A j \in 1..(i - 1) : readyState[Handles[j]] # "CONNECTING"
  /\ Apply(onConnection(ws))
  /\ wssClients' = Append(wssClients, ws)
  /\ UNCHANGED << now, sentSoFar >>

\* An envelope arrives on an open socket and its handler runs to completion.
Receive(ws, res, bad) ==
  /\ readyState[ws] = "OPEN"
  /\ Apply(res)
  /\ NoteSent(ws, bad)
  /\ UNCHANGED << wssClients, now >>

\* The handler run leaves at most MaxData stored items.
WithinData(res) == DataSize(res.messagesByChannel, res.threadMessages) <= MaxData

Join(ws, username, password) ==
  Receive(ws, onJoin(ws, username, password), password # HARDCODED_PASSWORD)

Message(ws, content, r) ==
  LET res == onMessage(ws, content, r) IN WithinData(res) /\ Receive(ws, res, FALSE)

Reaction(ws, messageId, emoji) ==
  LET res == onReaction(ws, messageId, emoji)
  IN WithinData(res) /\ Receive(ws, res, FALSE)

SwitchChannel(ws, newChannel) == Receive(ws, onSwitchChannel(ws, newChannel), FALSE)

CreateChannel(ws, rawChannelName) ==
  Receive(ws, onCreateChannel(ws, rawChannelName), FALSE)

OpenThread(ws, threadId) == Receive(ws, onOpenThread(ws, threadId), FALSE)

ThreadMessage(ws, threadId, content, r) ==
  LET res == onThreadMessage(ws, threadId, content, r)
  IN WithinData(res) /\ Receive(ws, res, FALSE)

Malformed(ws) == Receive(ws, onMalformed(ws), FALSE)

\* The transport reports the close of a socket; on a socket already CLOSED it
\* is a repeated close signal.
Close(ws) ==
  /\ readyState[ws] \in {"OPEN", "CLOSED"}
  /\ Apply(onClose(ws))
  /\ wssClients' = SelectSeq(wssClients, LAMBDA c : c # ws)
  /\ UNCHANGED << now, sentSoFar >>

Next ==
  \/ Tick
  \/ \E ws \in Conns : Connect(ws)
  \/ \E ws \in Conns : \E u \in JoinNames(ws), p \in Passwords : Join(ws, u, p)
  \/ \E ws \in Conns, b \in Contents, r \in RandChoices : Message(ws, b, r)
  \/ \E ws \in Conns, id \in IdInputs, e \in Emojis \cup {""} : Reaction(ws, id, e)
  \/ \E ws \in Conns, ch \in SwitchNames : SwitchChannel(ws, ch)
  \/ \E ws \in Conns, raw \in RawNames : CreateChannel(ws, raw)
  \/ \E ws \in Conns, id \in IdInputs : OpenThread(ws, id)
  \/ \E ws \in Conns, id \in IdInputs, b \in Contents, r \in RandChoices :
       ThreadMessage(ws, id, b, r)
  \/ \E ws \in Conns : Malformed(ws)
  \/ \E ws \in Conns : Close(ws)

Spec == Init /\ [][Next]_vars

\* ------------------------------------------------------------- observations
\* A handler run left every store, the registry and the ready states alone.
Untouched(res) ==
  /\ res.readyState = readyState
  /\ res.clients = clients
  /\ res.channels = channels
  /\ res.messagesByChannel = messagesByChannel
  /\ res.threadMessages = threadMessages

\* The sockets a run sends an envelope of one of the given types to.
Receivers(sends, types) ==
  { sends[i].to : i \in { j \in 1..Len(sends) : sends[j].env.type \in types } }

\* The envelopes a run sends to one socket, in order.
SentTo(sends, ws) == SelectSeq(sends, LAMBDA x : x.to = ws)

\* The open sockets whose session is in the given channel.
Occupants(channel) ==
  { c \in DOMAIN clients : readyState[c] = "OPEN" /\ clients[c].channel = channel }

\* The handler runs an envelope other than "join" from socket ws can start now.
OtherRuns(ws) ==
  { [ws |-> ws, type |-> "message", res |-> onMessage(ws, b, r)] :
      b \in Contents, r \in Rands }
  \cup { [ws |-> ws, type |-> "reaction", res |-> onReaction(ws, id, e)] :
           id \in IdInputs, e \in Emojis \cup {""} }
  \cup { [ws |-> ws, type |-> "switch_channel", res |-> onSwitchChannel(ws, ch)] :
           ch \in SwitchNames }
  \cup { [ws |-> ws, type |-> "create_channel", res |-> onCreateChannel(ws, raw)] :
           raw \in RawNames }
  \cup { [ws |-> ws, type |-> "open_thread", res |-> onOpenThread(ws, id)] :
           id \in IdInputs }
  \cup { [ws |-> ws, type |-> "thread_message",
          res |-> onThreadMessage(ws, id, b, r)] :
           id \in IdInputs, b \in Contents, r \in Rands }
  \cup { [ws |-> ws, type |-> "malformed", res |-> onMalformed(ws)] }

\* The handler runs a wrong-password, or a right-password, join can start now.
BadJoinRuns(ws) ==
  { [ws |-> ws, type |-> "badjoin", res |-> onJoin(ws, u, p)] :
      u \in Usernames, p \in Passwords \ { HARDCODED_PASSWORD } }
GoodJoinRuns(ws) ==
  { [ws |-> ws, type |-> "join", res |-> onJoin(ws, u, HARDCODED_PASSWORD)] :
      u \in Usernames }

\* Every handler run that can start in the current state.
Runs ==
  UNION { BadJoinRuns(ws) \cup GoodJoinRuns(ws) \cup OtherRuns(ws) :
          ws \in { c \in Conns : readyState[c] = "OPEN" } }
  \cup { [ws |-> ws, type |-> "connection", res |-> onConnection(ws)] :
           ws \in { c \in Conns : readyState[c] = "CONNECTING" } }
  \cup { [ws |-> ws, type |-> "close", res |-> onClose(ws)] :
           ws \in { c \in Conns : readyState[c] # "CONNECTING" } }

\* ------------------------------------------------------------------- claims
\* C1: a join whose password differs from the shared secret sends exactly one
\* auth_error, to the sender only; it creates no session, does not close the
\* socket, and leaves registry, channel set, histories and threads unchanged.
C1_BadJoinOnlyAuthError ==
  \A ws \in Conns : readyState[ws] = "OPEN" =>
    \A x \in BadJoinRuns(ws) :
      /\ Len(x.res.sends) = 1
      /\ x.res.sends[1].to = ws
      /\ x.res.sends[1].env.type = "auth_error"
      /\ Untouched(x.res)
      /\ x.res.readyState[ws] = "OPEN"
      /\ (ws \notin DOMAIN clients => ws \notin DOMAIN x.res.clients)

\* C1 witness: a socket that has sent wrong-password joins and nothing else is
\* open and without a session, while another socket holds a session.
C1_Witness ==
  \E ws \in Conns :
    /\ sentSoFar[ws] = "badjoin" /\ readyState[ws] = "OPEN"
    /\ ws \notin DOMAIN clients
    /\ \E c \in DOMAIN clients : c # ws
    /\ \A x \in BadJoinRuns(ws) : Receivers(x.res.sends, {"auth_error"}) = {ws}

\* The envelope types the runs that keep socket ws "wrong-password joins only"
\* send to ws: runs of other sockets, its connection, its wrong-password joins.
TypesSentToBadJoiner(ws) ==
  { t \in {"auth_success", "channel_list", "history"} :
      \E x \in Runs :
        /\ x.ws = ws => x.type \in {"connection", "badjoin"}
        /\ ws \in Receivers(x.res.sends, {t}) }

\* C2 as stated: a socket that has only ever sent wrong-password joins is never
\* sent an auth_success, a channel_list or a history envelope.
C2_Original_NoChannelListEither ==
  \A ws \in Conns : sentSoFar[ws] = "badjoin" => TypesSentToBadJoiner(ws) = {}

\* C2 amended: a socket that has only ever sent wrong-password joins is never
\* sent an auth_success or a history envelope, whatever the other sockets do;
\* channel_list envelopes it is sent (on connect, on every channel creation).
C2_NoAuthSuccessNoHistory ==
  \A ws \in Conns : sentSoFar[ws] # "other" =>
    TypesSentToBadJoiner(ws) \subseteq {"channel_list"}

\* C2 witness: a socket has sent wrong-password joins only, another socket has
\* joined and a channel has been created; a further channel creation would
\* send the first one a channel_list.
C2_Witness ==
  \E ws \in Conns :
    /\ sentSoFar[ws] = "badjoin" /\ readyState[ws] = "OPEN"
    /\ \E c \in DOMAIN clients : c # ws
    /\ TypesSentToBadJoiner(ws) = {"channel_list"}

\* C3: while a socket has no session, every envelope it sends other than join
\* is not honored: no store changes and nothing is sent to anyone.
C3_UnauthenticatedIgnored ==
  \A ws \in Conns : (readyState[ws] = "OPEN" /\ ws \notin DOMAIN clients) =>
    \A x \in OtherRuns(ws) : Untouched(x.res) /\ x.res.sends = << >>

\* C4: a message from a session in channel C is delivered, as stored, once to
\* each open socket whose session is in C, the sender included, and to no one
\* else.
C4_MessageToChannelOccupants ==
  \A ws \in DOMAIN clients : readyState[ws] = "OPEN" =>
    \A b \in Contents, r \in Rands :
      LET res == onMessage(ws, b, r)
          C == clients[ws].channel
      IN /\ Receivers(res.sends, {"message"}) = Occupants(C)
         /\ ws \in Receivers(res.sends, {"message"})
         /\ Len(res.sends) = Cardinality(Occupants(C))
         /\ \A i \in 1..Len(res.sends) :
              /\ res.sends[i].env.channel = C
              /\ res.sends[i].env = MapGet(res.messagesByChannel[C], generateId(now, r))

\* C4 witness: two open sessions in different channels, a message already
\* posted to one of them, and a post that reaches its sender alone.
C4_Witness ==
  /\ \E a, b \in DOMAIN clients :
       /\ clients[a].channel # clients[b].channel
       /\ readyState[a] = "OPEN" /\ readyState[b] = "OPEN"
       /\ Len(messagesByChannel[clients[a].channel]) > 0
       /\ Receivers(onMessage(a, "hi", "k3x").sends, {"message"}) = {a}

\* The fields of a stored message that identify what was posted.
Posted(m) == [id |-> m.id, channel |-> m.channel, username |-> m.username,
              content |-> m.content, timestamp |-> m.timestamp]
PostedSeq(msgs) == [i \in 1..Len(msgs) |-> Posted(msgs[i])]
IsPrefix(s, t) == Len(s) <= Len(t) /\ \A i \in 1..Len(s) : s[i] = t[i]

\* C5: a message posted to channel C is in every later history envelope for C,
\* and the envelope lists the messages in the order they were posted: no run
\* drops or reorders what was posted, a post adds its message at the end, and
\* a history envelope carries the channel's whole collection in order.
C5_HistoryKeepsPostsInOrder ==
  \A x \in Runs :
    /\ \A ch \in DOMAIN messagesByChannel :
         IsPrefix(PostedSeq(messagesByChannel[ch]),
                  PostedSeq(x.res.messagesByChannel[ch]))
    /\ (x.type = "message" /\ x.ws \in DOMAIN clients) =>
         Len(x.res.messagesByChannel[clients[x.ws].channel])
           = Len(messagesByChannel[clients[x.ws].channel]) + 1
    /\ \A i \in 1..Len(x.res.sends) :
         x.res.sends[i].env.type = "history" =>
           x.res.sends[i].env.messages
             = x.res.messagesByChannel[x.res.sends[i].env.channel]

\* Record<string, string[]> read as a mapping from emoji to set of usernames.
AsSets(reactions) == [e \in DOMAIN reactions |-> Range(reactions[e])]
HasReacted(reactions, emoji, username) ==
  emoji \in DOMAIN reactions /\ username \in Range(reactions[emoji])

\* The emoji and usernames the toggle claims range over.
ToggleEmojis == Emojis \cup {"heart"}
ToggleUsers == Usernames \cup {"carol"}

\* The reactions of a stored message after 1, 2 and 3 toggles of (emoji, user).
Toggled1(m, e, u) == ToggleReaction(m.reactions, e, u)
Toggled2(m, e, u) == ToggleReaction(Toggled1(m, e, u), e, u)
Toggled3(m, e, u) == ToggleReaction(Toggled2(m, e, u), e, u)

StoredMessages ==
  UNION { Range(messagesByChannel[ch]) : ch \in DOMAIN messagesByChannel }

\* C6 as stated: after an even number of toggles of the same (message, emoji,
\* user) the reaction mapping is the one before; after an odd number the user
\* is present.
C6_Original_OddMeansPresent ==
  \A m \in StoredMessages, e \in ToggleEmojis, u \in ToggleUsers :
    /\ AsSets(Toggled2(m, e, u)) = AsSets(m.reactions)
    /\ HasReacted(Toggled1(m, e, u), e, u)
    /\ HasReacted(Toggled3(m, e, u), e, u)

\* C6 amended: after an even number of toggles the mapping is the one before;
\* after an odd number the user is present exactly when absent before (and
\* the mapping is otherwise the one before); the reaction handler applies one
\* such toggle with the sender's username.
C6_ToggleParity ==
  /\ \A m \in StoredMessages, e \in ToggleEmojis, u \in ToggleUsers :
       /\ AsSets(Toggled2(m, e, u)) = AsSets(m.reactions)
       /\ AsSets(Toggled3(m, e, u)) = AsSets(Toggled1(m, e, u))
       /\ HasReacted(Toggled1(m, e, u), e, u) <=> ~HasReacted(m.reactions, e, u)
       /\ \A f \in DOMAIN m.reactions \ {e} :
            f \in DOMAIN Toggled1(m, e, u)
            /\ Range(Toggled1(m, e, u)[f]) = Range(m.reactions[f])
  /\ \A ws \in DOMAIN clients : readyState[ws] = "OPEN" =>
       \A i \in 1..Len(messagesByChannel[clients[ws].channel]), e \in Emojis :
         LET C == clients[ws].channel
             m == messagesByChannel[C][i]
         IN onReaction(ws, m.id, e).messagesByChannel[C][i].reactions
              = Toggled1(m, e, clients[ws].username)

\* C6 witness: a stored message carries a reaction of one user, and a session
\* of another user is in its channel, so toggles start from either case.
C6_Witness ==
  \E ws \in DOMAIN clients, m \in StoredMessages :
    /\ readyState[ws] = "OPEN" /\ m.channel = clients[ws].channel
    /\ \E e \in DOMAIN m.reactions :
         /\ ~HasReacted(m.reactions, e, clients[ws].username)
         /\ Len(Toggled1(m, e, clients[ws].username)[e]) = 2

\* C7: no stored message has a reactions entry whose user set is empty, now or
\* after any handler run.
C7_NoEmptyReactionSet ==
  /\ \A m \in StoredMessages : \A e \in DOMAIN m.reactions : m.reactions[e] # << >>
  /\ \A x \in Runs : \A ch \in DOMAIN x.res.messagesByChannel :
       \A i \in 1..Len(x.res.messagesByChannel[ch]) :
         LET r == x.res.messagesByChannel[ch][i].reactions
         IN \A e \in DOMAIN r : r[e] # << >>

\* C7 witness: the only user of an emoji on a stored message has a session in
\* its channel; its next toggle removes the emoji key.
C7_Witness ==
  \E ws \in DOMAIN clients, m \in StoredMessages :
    /\ readyState[ws] = "OPEN" /\ m.channel = clients[ws].channel
    /\ \E e \in DOMAIN m.reactions :
         /\ m.reactions[e] = << clients[ws].username >>
         /\ e \notin DOMAIN MapGet(onReaction(ws, m.id, e).messagesByChannel[m.channel],
                                   m.id).reactions

\* parentMessage.replyCount, 0 when never set.
ReplyCount(m) == IF "replyCount" \in DOMAIN m THEN m.replyCount ELSE 0

\* C8: for every stored message M, M.replyCount (0 when never set) equals the
\* number of replies stored in the thread store under M's id.
C8_ReplyCountMatchesThread ==
  \A m \in StoredMessages : ReplyCount(m) = Len(Replies(threadMessages, m.id))

\* C9: the currentChannel of every registered session is in the channel set,
\* now and after any handler run.
C9_SessionChannelKnown ==
  /\ \A c \in DOMAIN clients : clients[c].channel \in channels
  /\ \A x \in Runs : \A c \in DOMAIN x.res.clients :
       x.res.clients[c].channel \in x.res.channels

\* C9 witness: a session has switched into a created channel while another
\* session stays in the default channel.
C9_Witness ==
  \E a, b \in DOMAIN clients :
    /\ clients[a].channel = Dev /\ clients[b].channel = General
    /\ channels = { General, Dev }

\* C10: no two distinct stored messages, in the same or in different channels,
\* have the same id, and posting a message never overwrites a stored one.
C10_MessageIdsUnique ==
  /\ \A ch1, ch2 \in DOMAIN messagesByChannel :
       \A i \in 1..Len(messagesByChannel[ch1]), j \in 1..Len(messagesByChannel[ch2]) :
         messagesByChannel[ch1][i].id = messagesByChannel[ch2][j].id
           => ch1 = ch2 /\ i = j
  /\ \A ws \in DOMAIN clients : readyState[ws] = "OPEN" =>
       \A b \in Contents, r \in Rands : generateId(now, r) \notin StoredIds

\* The sockets whose envelopes the server reads.
OpenConns == { c \in Conns : readyState[c] = "OPEN" }

\* C11: a create_channel whose normalised name is empty or already in the
\* channel set changes neither the channel set nor any message collection and
\* sends nothing; otherwise exactly the normalised name is added, with an empty
\* message collection.  The collections are keyed by the channel set, so a
\* second create of the same raw name finds the name and is such a no-op.
C11_CreateChannelOnce ==
  /\ DOMAIN messagesByChannel = channels
  /\ \A ws \in OpenConns, raw \in RawNames :
       LET res == onCreateChannel(ws, raw)
           name == NormalizeChannelName(raw)
       IN IF name = << >> \/ name \in channels
          THEN /\ res.channels = channels
               /\ res.messagesByChannel = messagesByChannel
               /\ res.sends = << >>
          ELSE /\ res.channels = channels \cup { name }
               /\ name \notin channels
               /\ DOMAIN res.messagesByChannel = res.channels
               /\ res.messagesByChannel[name] = << >>
               /\ \A ch \in channels :
                    res.messagesByChannel[ch] = messagesByChannel[ch]

\* C11 witness: "dev" was created while "general" held a message, and the raw
\* name "Dev!" that normalises to it is sent again.
C11_Witness ==
  /\ Dev \in channels
  /\ Len(messagesByChannel[General]) > 0
  /\ OpenConns # {}
  /\ NormalizeChannelName(<< "D", "e", "v", "!" >>) = Dev

\* C12: a successful create_channel sends exactly one channel_list envelope to
\* every open socket, with or without a session and whatever its channel, and
\* the list is the channel set with the new channel in it.
C12_ChannelListToAll ==
  \A ws \in OpenConns, raw \in RawNames :
    LET res == onCreateChannel(ws, raw)
    IN res.channels # channels =>
         /\ NormalizeChannelName(raw) \in res.channels
         /\ \A c \in Conns :
              SentTo(res.sends, c) =
                IF readyState[c] = "OPEN"
                THEN << [to |-> c, env |-> channelListMessage(res.channels)] >>
                ELSE << >>

\* C12 witness: one session is in "dev", another in "general", and "ops" can
\* still be created.
C12_Witness ==
  /\ \E a, b \in DOMAIN clients :
       /\ clients[a].channel = Dev /\ clients[b].channel = General
       /\ readyState[a] = "OPEN" /\ readyState[b] = "OPEN"
  /\ Ops \notin channels

\* The envelopes of the given types among those a run sends, in order.
OfTypes(sends, types) == SelectSeq(sends, LAMBDA x : x.env.type \in types)

\* The open sockets whose session a run leaves in the given channel.
OccupantsAfter(res, channel) ==
  { c \in DOMAIN res.clients :
      res.readyState[c] = "OPEN" /\ res.clients[c].channel = channel }

\* The sessions that can send an envelope now.
OpenSessions == { c \in DOMAIN clients : readyState[c] = "OPEN" }

\* C13: a switch_channel whose target is the session's current channel, or is
\* not in the channel set, leaves the session as it was and sends no leave,
\* history or join envelope to any socket.
C13_SwitchNoOp ==
  \A ws \in OpenSessions, newChannel \in SwitchNames :
    (newChannel = clients[ws].channel \/ newChannel \notin channels) =>
      LET res == onSwitchChannel(ws, newChannel)
      IN /\ res.clients = clients
         /\ OfTypes(res.sends, {"leave", "history", "join"}) = << >>

\* C14 as stated: on a switch from A to another known channel B the leave goes
\* to the sessions in A other than the switcher, the join to the occupants of
\* B, and the switcher gets one history envelope holding B's messages.
C14_Original_LeaveToOthersOnly ==
  \A ws \in OpenSessions, B \in SwitchNames :
    (B \in channels /\ B # clients[ws].channel) =>
      LET res == onSwitchChannel(ws, B)
          A == clients[ws].channel
      IN /\ Receivers(res.sends, {"leave"}) = Occupants(A) \ { ws }
         /\ Receivers(res.sends, {"join"}) = OccupantsAfter(res, B)
         /\ Receivers(res.sends, {"history"}) = { ws }
         /\ Len(OfTypes(res.sends, {"history"})) = 1

\* C14: on a switch from A to another known channel B, every open socket whose
\* session is in A when the envelope arrives, the switcher included, gets the
\* leave once; every occupant of B after the move, the switcher included, gets
\* the join once; and the switcher alone gets a history envelope, exactly one,
\* holding all of B's messages.  The switcher gets them in that order.
C14_SwitchPresence ==
  \A ws \in OpenSessions, B \in SwitchNames :
    (B \in channels /\ B # clients[ws].channel) =>
      LET res == onSwitchChannel(ws, B)
          A == clients[ws].channel
          types(sent) == [i \in 1..Len(sent) |-> sent[i].env.type]
      IN /\ res.clients[ws].channel = B
         /\ Receivers(res.sends, {"leave"}) = Occupants(A)
         /\ ws \in Occupants(A)
         /\ Receivers(res.sends, {"join"}) = OccupantsAfter(res, B)
         /\ ws \in OccupantsAfter(res, B)
         /\ \A c \in Conns \ { ws } : Len(SentTo(res.sends, c)) <= 1
         /\ types(SentTo(res.sends, ws)) = << "leave", "history", "join" >>
         /\ \A i \in 1..Len(res.sends) :
              /\ res.sends[i].env.type = "leave" => res.sends[i].env.channel = A
              /\ res.sends[i].env.type = "join" => res.sends[i].env.channel = B
              /\ res.sends[i].env.type = "history" =>
                   /\ res.sends[i].env.channel = B
                   /\ res.sends[i].env.messages = messagesByChannel[B]

\* C14 witness: two open sessions share "general" and "dev" holds a message, so
\* a switch of either into "dev" has a remaining occupant and a history to
\* replay.
C14_Witness ==
  /\ Dev \in channels
  /\ Len(messagesByChannel[Dev]) > 0
  /\ \E a, b \in OpenSessions :
       a # b /\ clients[a].channel = General /\ clients[b].channel = General

\* The types of a sequence of sent envelopes, in order.
TypesOf(sent) == [i \in 1..Len(sent) |-> sent[i].env.type]

\* The positions in a run's sends of the envelopes of one type sent to ws.
PositionsTo(sends, ws, type) ==
  { i \in 1..Len(sends) : sends[i].to = ws /\ sends[i].env.type = type }

\* C15 as stated: a right-password join creates the sender's session in the
\* default channel with no active thread, and the sender gets auth_success,
\* then the channel list and the default channel's history, all before the
\* join presence event goes out.
C15_Original_ChannelListOnJoin ==
  \A ws \in OpenConns, u \in Usernames :
    LET res == onJoin(ws, u, HARDCODED_PASSWORD)
        at(type) == PositionsTo(res.sends, ws, type)
        joins == { i \in 1..Len(res.sends) : res.sends[i].env.type = "join" }
    IN /\ res.clients[ws] = [username |-> u, channel |-> General]
       /\ at("auth_success") # {} /\ at("channel_list") # {} /\ at("history") # {}
       /\ \A i \in at("auth_success"), j \in at("channel_list") \cup at("history") :
            i < j
       /\ \A j \in at("channel_list") \cup at("history"), k \in joins : j < k

\* C15: a right-password join creates the sender's session in the default
\* channel with no active thread; the run sends auth_success to the sender,
\* then the default channel's whole history to the sender, then the join
\* presence events, and it sends no channel_list.
C15_JoinReplay ==
  \A ws \in OpenConns, u \in Usernames :
    LET res == onJoin(ws, u, HARDCODED_PASSWORD)
        n == Len(res.sends)
    IN /\ res.clients[ws] = [username |-> u, channel |-> General]
       /\ \A c \in DOMAIN res.clients \ { ws } :
            c \in DOMAIN clients /\ res.clients[c] = clients[c]
       /\ n >= 2
       /\ res.sends[1].to = ws /\ res.sends[1].env.type = "auth_success"
       /\ res.sends[1].env.username = u
       /\ res.sends[2].to = ws /\ res.sends[2].env.type = "history"
       /\ res.sends[2].env.channel = General
       /\ res.sends[2].env.messages = messagesByChannel[General]
       /\ \A i \in 3..n : res.sends[i].env.type = "join"
       /\ PositionsTo(res.sends, ws, "channel_list") = {}

\* C15 witness: a socket without a session is open while "general" holds a
\* message and another session, and a second channel exists.
C15_Witness ==
  /\ \E a \in OpenConns \ DOMAIN clients :
       \E b \in OpenSessions : clients[b].channel = General
  /\ Len(messagesByChannel[General]) > 0
  /\ Dev \in channels

\* C16: the join presence event of a right-password join reaches every open
\* socket other than the joiner whose session is in the default channel, and
\* no other socket: not the joiner, not a session in another channel.
C16_JoinToOthersOnly ==
  \A ws \in OpenConns, u \in Usernames :
    LET res == onJoin(ws, u, HARDCODED_PASSWORD)
    IN Receivers(res.sends, {"join"}) = OccupantsAfter(res, General) \ { ws }

\* The open sockets whose session has the given thread open.
ThreadViewers(threadId) ==
  { c \in OpenSessions : /\ "activeThreadId" \in DOMAIN clients[c]
                         /\ clients[c].activeThreadId = threadId }

\* The stored messages of one channel.
MessagesOf(ch) == { messagesByChannel[ch][i] : i \in 1..Len(messagesByChannel[ch]) }

\* C17: every stored message M has replyCount (0 when never set) equal to the
\* number of replies accepted for it; an open_thread on M from a session in
\* M's channel returns one thread_history whose parent is M and whose messages
\* are the stored replies in order; and an accepted thread_message puts its
\* reply at the end of M's thread and raises M's replyCount by one, while no
\* handler run removes or reorders stored replies.
C17_ThreadHistoryCountsReplies ==
  /\ \A ch \in DOMAIN messagesByChannel : \A M \in MessagesOf(ch) :
       /\ ReplyCount(M) = Len(Replies(threadMessages, M.id))
       /\ \A ws \in OpenSessions :
            clients[ws].channel = ch =>
              /\ TypesOf(onOpenThread(ws, M.id).sends) = << "thread_history" >>
              /\ onOpenThread(ws, M.id).sends[1].to = ws
              /\ onOpenThread(ws, M.id).sends[1].env.parentMessage = M
              /\ onOpenThread(ws, M.id).sends[1].env.messages
                   = Replies(threadMessages, M.id)
       /\ \A ws \in OpenSessions, b \in Contents, r \in Rands :
            clients[ws].channel = ch =>
              LET res == onThreadMessage(ws, M.id, b, r)
                  old == Replies(threadMessages, M.id)
                  new == res.threadMessages[M.id]
              IN /\ Len(new) = Len(old) + 1
                 /\ IsPrefix(old, new)
                 /\ new[Len(new)].content = b
                 /\ new[Len(new)].username = clients[ws].username
                 /\ ReplyCount(MapGet(res.messagesByChannel[ch], M.id))
                      = ReplyCount(M) + 1
  /\ \A x \in Runs : \A t \in DOMAIN threadMessages :
       /\ t \in DOMAIN x.res.threadMessages
       /\ IsPrefix(threadMessages[t], x.res.threadMessages[t])

\* C18: an accepted thread_message for thread T sends the new reply, once, to
\* exactly the open sockets whose session has activeThreadId = T, whatever
\* their channel, and sends a message envelope for the parent with the new
\* replyCount, once, to exactly the open sockets whose session is in the
\* parent's channel, thread open or not.
C18_ThreadFanOut ==
  \A ws \in OpenSessions, T \in IdInputs, b \in Contents, r \in Rands :
    LET res == onThreadMessage(ws, T, b, r)
        ch == clients[ws].channel
    IN res.threadMessages # threadMessages =>
         LET thread == res.threadMessages[T]
             reply == thread[Len(thread)]
             parent == MapGet(res.messagesByChannel[ch], T)
         IN /\ Receivers(res.sends, {"thread_message"}) = ThreadViewers(T)
            /\ Receivers(res.sends, {"message"}) = Occupants(ch)
            /\ parent.channel = ch
            /\ parent.replyCount = Len(thread)
            /\ \A c \in Conns :
                 /\ OfTypes(SentTo(res.sends, c), {"thread_message"}) =
                      IF c \in ThreadViewers(T)
                      THEN << [to |-> c, env |-> reply] >> ELSE << >>
                 /\ Len(OfTypes(SentTo(res.sends, c), {"message"})) =
                      IF c \in Occupants(ch) THEN 1 ELSE 0
            /\ \A i \in 1..Len(res.sends) :
                 res.sends[i].env.type = "message" =>
                   /\ res.sends[i].env.id = T
                   /\ res.sends[i].env.replyCount = Len(thread)
                   /\ res.sends[i].env.channel = ch
                   /\ res.sends[i].env.content = parent.content

\* C18 witness: a session that opened a thread of "general" has moved to "dev"
\* with the thread still open, and a session in "general" has no thread open.
C18_Witness ==
  \E a, b \in OpenSessions :
    /\ clients[a].channel = Dev
    /\ \E M \in MessagesOf(General) : a \in ThreadViewers(M.id)
    /\ clients[b].channel = General
    /\ "activeThreadId" \notin DOMAIN clients[b]

\* C19: an open_thread with a non-empty thread id T sets the sender's
\* activeThreadId to T and changes nothing else; when a message with id T is in
\* the sender's current channel the run sends one thread_history, with that
\* message as parent and its stored replies, to the sender only, and otherwise
\* it sends nothing to any socket.
C19_OpenThread ==
  \A ws \in OpenSessions, T \in IdInputs \ { EmptyId } :
    LET res == onOpenThread(ws, T)
        ch == clients[ws].channel
    IN /\ "activeThreadId" \in DOMAIN res.clients[ws]
       /\ res.clients[ws].activeThreadId = T
       /\ res.clients[ws].username = clients[ws].username
       /\ res.clients[ws].channel = ch
       /\ DOMAIN res.clients = DOMAIN clients
       /\ \A c \in DOMAIN clients \ { ws } : res.clients[c] = clients[c]
       /\ res.channels = channels
       /\ res.messagesByChannel = messagesByChannel
       /\ res.threadMessages = threadMessages
       /\ IF MapHas(messagesByChannel[ch], T)
          THEN res.sends =
                 << [to |-> ws,
                     env |-> [type |-> "thread_history", threadId |-> T,
                              messages |-> Replies(threadMessages, T),
                              parentMessage |-> MapGet(messagesByChannel[ch], T),
                              username |-> "", content |-> "",
                              timestamp |-> now]] >>
          ELSE res.sends = << >>

\* C19 witness: one session has opened a thread id that no message has, while
\* a stored message has a reply for a thread history to carry.
C19_Witness ==
  /\ ThreadViewers(UnknownId) # {}
  /\ \E ch \in DOMAIN messagesByChannel : \E M \in MessagesOf(ch) :
       /\ Len(Replies(threadMessages, M.id)) > 0
       /\ \E ws \in OpenSessions : clients[ws].channel = ch

\* C20: the close of a socket with a session sends one leave to every other
\* open socket whose session is in its channel and to no one else, and removes
\* the session; a close signal for a socket without a session, a repeated one
\* included, changes no store and no session and sends nothing.
C20_CloseLeavesOnce ==
  /\ \A ws \in DOMAIN clients : readyState[ws] = "OPEN"
  /\ \A ws \in Conns :
       readyState[ws] # "CONNECTING" =>
         LET res == onClose(ws)
         IN /\ res.channels = channels
            /\ res.messagesByChannel = messagesByChannel
            /\ res.threadMessages = threadMessages
            /\ IF ws \in DOMAIN clients
               THEN /\ res.clients = [c \in DOMAIN clients \ { ws } |-> clients[c]]
                    /\ TypesOf(res.sends) \in Seq({"leave"})
                    /\ Receivers(res.sends, {"leave"})
                         = Occupants(clients[ws].channel) \ { ws }
                    /\ \A c \in Conns : Len(SentTo(res.sends, c)) <= 1
                    /\ \A i \in 1..Len(res.sends) :
                         /\ res.sends[i].env.username = clients[ws].username
                         /\ res.sends[i].env.channel = clients[ws].channel
               ELSE /\ res.clients = clients
                    /\ res.sends = << >>
            /\ readyState[ws] = "CLOSED" => Untouched(res) /\ res.sends = << >>

\* C20 witness: the second socket, the only one that can be "bob", has posted
\* as bob and is now closed and unregistered, while the first socket's session
\* is still there to have received the leave.
C20_Witness ==
  /\ readyState[Handles[2]] = "CLOSED"
  /\ Handles[2] \notin DOMAIN clients
  /\ \E M \in MessagesOf(General) : M.username = "bob"
  /\ Handles[1] \in OpenSessions
  /\ clients[Handles[1]].channel = General

\* C21: an unparseable envelope from an open socket, with or without a session,
\* changes no session, channel, history or thread, sends nothing to any socket
\* and leaves every socket, the sender included, in the ready state it had.
C21_MalformedDropped ==
  \A ws \in OpenConns :
    LET res == onMalformed(ws)
    IN /\ Untouched(res)
       /\ res.readyState[ws] = "OPEN"
       /\ res.sends = << >>

\* C21 witness: a socket with a session and one without are both open and a
\* message is stored, so there is state for a bad envelope to disturb.
C21_Witness ==
  /\ OpenSessions # {}
  /\ OpenConns \ DOMAIN clients # {}
  /\ StoredMessages # {}

\* C22: a right-password join from a socket that already has a session is
\* ignored: the session keeps its username, channel and active thread and
\* nothing is sent to any socket.
C22_RejoinIgnored ==
  \A ws \in OpenSessions, u \in Usernames :
    LET res == onJoin(ws, u, HARDCODED_PASSWORD)
    IN /\ res.clients[ws] = clients[ws]
       /\ res.sends = << >>

\* C23: a reaction on a message stored in the sender's channel toggles the
\* sender's username under the emoji, leaves the other emoji alone, and sends
\* one reaction envelope with the message's whole new mapping to every open
\* socket whose session is in that channel and nothing to any other socket.
C23_ReactionToChannel ==
  \A ws \in OpenSessions, M \in StoredMessages, e \in Emojis :
    MapHas(messagesByChannel[clients[ws].channel], M.id) =>
      LET ch == clients[ws].channel
          res == onReaction(ws, M.id, e)
          old == MapGet(messagesByChannel[ch], M.id).reactions
          new == MapGet(res.messagesByChannel[ch], M.id).reactions
      IN /\ HasReacted(new, e, clients[ws].username)
              = ~HasReacted(old, e, clients[ws].username)
         /\ \A f \in (DOMAIN old \cup DOMAIN new) \ { e } :
              f \in DOMAIN old /\ f \in DOMAIN new /\ new[f] = old[f]
         /\ \A v \in Usernames \ { clients[ws].username } :
              HasReacted(new, e, v) = HasReacted(old, e, v)
         /\ \A c \in Conns :
              IF c \in Occupants(ch)
              THEN /\ Len(SentTo(res.sends, c)) = 1
                   /\ SentTo(res.sends, c)[1].env.type = "reaction"
                   /\ SentTo(res.sends, c)[1].env.messageId = M.id
                   /\ SentTo(res.sends, c)[1].env.emoji = e
                   /\ SentTo(res.sends, c)[1].env.reactions = new
              ELSE SentTo(res.sends, c) = << >>

\* C23 witness: a message of "general" carries a reaction, one session is in
\* "general" and another is in "dev".
C23_Witness ==
  /\ \E M \in MessagesOf(General) : DOMAIN M.reactions # {}
  /\ \E a, b \in OpenSessions :
       clients[a].channel = General /\ clients[b].channel = Dev

\* C24: a reaction or a thread_message from a session that names an id not
\* stored in the session's current channel (an unknown id, the empty id, or an
\* id stored only in another channel) changes no reactions, no thread and no
\* replyCount, and sends no envelope of any kind.
C24_UnknownIdIgnored ==
  \A ws \in OpenSessions, id \in IdInputs :
    ~MapHas(messagesByChannel[clients[ws].channel], id) =>
      /\ \A e \in Emojis \cup {""} :
           /\ Untouched(onReaction(ws, id, e))
           /\ onReaction(ws, id, e).sends = << >>
      /\ \A b \in Contents, r \in Rands :
           /\ Untouched(onThreadMessage(ws, id, b, r))
           /\ onThreadMessage(ws, id, b, r).sends = << >>

\* C24 witness: a session is in "dev" while the only stored message, which has
\* a thread, is in "general", and a session there has that thread open.
C24_Witness ==
  /\ Dev \in channels /\ messagesByChannel[Dev] = << >>
  /\ \E M \in MessagesOf(General) :
       /\ Len(Replies(threadMessages, M.id)) > 0
       /\ ThreadViewers(M.id) # {}
  /\ \E a \in OpenSessions : clients[a].channel = Dev

\* C25: when a socket connects, before it has sent any envelope, the server
\* sends it, and it alone, one channel_list envelope with the whole current
\* channel set, whatever the state of the server.
C25_ChannelListOnConnect ==
  \A ws \in Conns :
    readyState[ws] = "CONNECTING" =>
      LET res == onConnection(ws)
      IN /\ sentSoFar[ws] = "none"
         /\ res.readyState[ws] = "OPEN"
         /\ res.sends = << [to |-> ws,
                            env |-> [type |-> "channel_list", channels |-> channels,
                                     username |-> "", content |-> "",
                                     timestamp |-> now]] >>
         /\ res.clients = clients /\ res.channels = channels

\* C25 witness: the second socket has yet to connect and the first one has
\* already created a channel.
C25_Witness ==
  /\ readyState[Handles[2]] = "CONNECTING"
  /\ channels = { General, Dev }

\* C26: sessions are keyed by socket, one each.  A socket gains a session only
\* by a right-password join of its own, and every such join leaves it with
\* one; it loses its session only by its own close, and every close leaves it
\* without one; a handler run never changes the session of a socket other than
\* the one it runs for.  No socket has a session before it joins.
C26_SessionIffJoined ==
  /\ \A ws \in Conns : sentSoFar[ws] \in {"none", "badjoin"} => ws \notin DOMAIN clients
  /\ \A ws \in DOMAIN clients : readyState[ws] = "OPEN"
  /\ \A x \in Runs :
       /\ \A c \in DOMAIN x.res.clients \ DOMAIN clients :
            c = x.ws /\ x.type = "join"
       /\ \A c \in DOMAIN clients \ DOMAIN x.res.clients :
            c = x.ws /\ x.type = "close"
       /\ x.type = "join" => x.ws \in DOMAIN x.res.clients
       /\ x.type = "close" => x.ws \notin DOMAIN x.res.clients
       /\ \A c \in (DOMAIN clients \cap DOMAIN x.res.clients) \ { x.ws } :
            x.res.clients[c] = clients[c]

\* C26 witness: the first socket has a session with a thread open in "dev",
\* and the second socket, which has sent wrong-password joins only, has none.
C26_Witness ==
  /\ Handles[1] \in OpenSessions
  /\ clients[Handles[1]].channel = Dev
  /\ "activeThreadId" \in DOMAIN clients[Handles[1]]
  /\ sentSoFar[Handles[2]] = "badjoin"
  /\ Handles[2] \notin DOMAIN clients

\* C27: the default channel is in the channel set in every reachable state,
\* and no handler run takes a name out of the set.
C27_ChannelsOnlyGrow ==
  /\ General \in channels
  /\ \A x \in Runs : channels \subseteq x.res.channels

\* C27 witness: both creatable names have been added to the default channel.
C27_Witness == channels = { General, Dev, Ops }

\* C28 as stated: a thread_message from a session that has no thread open, or
\* has another thread open, appends no reply, changes no replyCount and sends
\* nothing.
C28_Original_NeedsOpenThread ==
  \A ws \in OpenSessions, T \in IdInputs, b \in Contents, r \in Rands :
    ws \notin ThreadViewers(T) =>
      /\ Untouched(onThreadMessage(ws, T, b, r))
      /\ onThreadMessage(ws, T, b, r).sends = << >>

\* C28: a thread_message is accepted exactly when its thread id is non-empty
\* and names a message stored in the sender's current channel; the session's
\* activeThreadId plays no part: with no thread open, or another one, the reply
\* is appended all the same.
C28_ThreadIdFromEnvelope ==
  \A ws \in OpenSessions, T \in IdInputs, b \in Contents, r \in Rands :
    LET res == onThreadMessage(ws, T, b, r)
        stored == MapHas(messagesByChannel[clients[ws].channel], T)
    IN /\ stored =>
            /\ T # EmptyId
            /\ Len(Replies(res.threadMessages, T))
                 = Len(Replies(threadMessages, T)) + 1
            /\ res.sends # << >>
            /\ res.clients = clients
       /\ ~stored => Untouched(res) /\ res.sends = << >>

\* C28 witness: a message with no reply yet is stored in the channel of a
\* session that has no thread open and of a session that has opened a thread
\* id no message has.
C28_Witness ==
  \E a, b \in OpenSessions : \E M \in MessagesOf(General) :
    /\ clients[a].channel = General /\ clients[b].channel = General
    /\ "activeThreadId" \notin DOMAIN clients[a]
    /\ b \in ThreadViewers(UnknownId)
    /\ Replies(threadMessages, M.id) = << >>

\* C29: no handler run removes a stored message or changes its id, channel,
\* author, body or timestamp, so each channel's collection before a run is a
\* prefix, up to reactions and replyCount, of the collection after it; a run
\* changes a stored message's reactions only if it is a reaction, and its
\* replyCount only if it is a thread_message.
C29_MessagesAppendOnly ==
  \A x \in Runs : \A ch \in DOMAIN messagesByChannel :
    /\ ch \in DOMAIN x.res.messagesByChannel
    /\ IsPrefix(PostedSeq(messagesByChannel[ch]),
                PostedSeq(x.res.messagesByChannel[ch]))
    /\ \A i \in 1..Len(messagesByChannel[ch]) :
         i <= Len(x.res.messagesByChannel[ch]) =>
           /\ x.res.messagesByChannel[ch][i].reactions
                 # messagesByChannel[ch][i].reactions => x.type = "reaction"
           /\ ReplyCount(x.res.messagesByChannel[ch][i])
                 # ReplyCount(messagesByChannel[ch][i]) => x.type = "thread_message"

\* C30: every stored reply carries the id of the thread it is stored under,
\* and no handler run changes, reorders or removes a stored reply: each
\* thread's list before a run is a prefix of its list after it.
C30_RepliesAppendOnly ==
  /\ \A t \in DOMAIN threadMessages : \A i \in 1..Len(threadMessages[t]) :
       threadMessages[t][i].threadId = t
  /\ \A x \in Runs :
       /\ \A t \in DOMAIN threadMessages :
            /\ t \in DOMAIN x.res.threadMessages
            /\ IsPrefix(threadMessages[t], x.res.threadMessages[t])
       /\ \A t \in DOMAIN x.res.threadMessages :
            \A i \in 1..Len(x.res.threadMessages[t]) :
              x.res.threadMessages[t][i].threadId = t

\* C30 witness: a thread holds a reply by bob and alice's session is in the
\* parent's channel, able to reply after it.
C30_Witness ==
  \E ch \in DOMAIN messagesByChannel : \E M \in MessagesOf(ch) :
    /\ M.id \in DOMAIN threadMessages
    /\ \E i \in 1..Len(threadMessages[M.id]) :
         threadMessages[M.id][i].username = "bob"
    /\ \E a \in OpenSessions :
         clients[a].channel = ch /\ clients[a].username = "alice"

\* The types of the envelopes a run sends to one socket.
TypesSentTo(res, c) == Range(TypesOf(SentTo(res.sends, c)))

\* C32: a socket that a handler run leaves without a session gets nothing from
\* that run but channel_list and auth_error envelopes: no message, reaction,
\* presence, history, thread_history or thread_message, and no auth_success
\* either, which goes only to the socket the run gives a session.
C32_NoSessionNoContent ==
  \A x \in Runs : \A c \in Conns \ DOMAIN x.res.clients :
    TypesSentTo(x.res, c) \subseteq { "channel_list", "auth_error" }

\* C32 witness: one socket is open with wrong-password joins only behind it
\* while a session has a thread open on a stored message with a reaction.
C32_Witness ==
  /\ \E a \in OpenConns \ DOMAIN clients : sentSoFar[a] = "badjoin"
  /\ \E M \in StoredMessages :
       ThreadViewers(M.id) # {} /\ DOMAIN M.reactions # {}

\* C33: the activeThreadId of a session, when set, is the id of a message
\* stored in the session's current channel, so a thread reply reaches only
\* sockets whose session is in the channel of the parent message.
C33_ActiveThreadInChannel ==
  /\ \A c \in DOMAIN clients :
       "activeThreadId" \in DOMAIN clients[c] =>
         MapHas(messagesByChannel[clients[c].channel], clients[c].activeThreadId)
  /\ \A ws \in OpenSessions, T \in IdInputs, b \in Contents, r \in Rands :
       Receivers(onThreadMessage(ws, T, b, r).sends, {"thread_message"})
         \subseteq Occupants(clients[ws].channel)

\* C34: an entry of reactions[emoji] is removed only by a toggle from the
\* socket that added it, so of two different sockets at most one can remove a
\* given entry with its toggle.
C34_OnlyAdderRemoves ==
  \A a, b \in OpenSessions : \A M \in StoredMessages, e \in Emojis, v \in Usernames :
    ( /\ a # b
      /\ clients[a].channel = M.channel /\ clients[b].channel = M.channel
      /\ MapHas(messagesByChannel[M.channel], M.id)
      /\ HasReacted(MapGet(messagesByChannel[M.channel], M.id).reactions, e, v) )
    => LET after(c) == MapGet(onReaction(c, M.id, e).messagesByChannel[M.channel],
                              M.id).reactions
       IN HasReacted(after(a), e, v) \/ HasReacted(after(b), e, v)

\* C35: a switch_channel to a known channel changes the channel of the
\* sender's session and nothing else: not its username or active thread, no
\* other session, not the channel set, no stored message, reaction or
\* replyCount, no thread, no ready state.
C35_SwitchFrame ==
  \A ws \in OpenSessions, B \in SwitchNames :
    B \in channels =>
      LET res == onSwitchChannel(ws, B)
      IN /\ res.clients = [clients EXCEPT ![ws].channel = B]
         /\ DOMAIN res.clients[ws] = DOMAIN clients[ws]
         /\ res.channels = channels
         /\ res.messagesByChannel = messagesByChannel
         /\ res.threadMessages = threadMessages
         /\ res.readyState = readyState

\* C35 witness: a session with a thread open on a message of "general" that
\* has a reply can switch to "dev", and another session is registered.
C35_Witness ==
  /\ Dev \in channels
  /\ \E a, b \in OpenSessions : \E M \in MessagesOf(General) :
       /\ a # b
       /\ clients[a].channel = General
       /\ a \in ThreadViewers(M.id)
       /\ ReplyCount(M) > 0

\* What a client makes of the envelopes it receives: a history envelope
\* replaces its list of messages, a message envelope with an id it does not
\* have yet is put at the end, and any other envelope leaves the list alone.
\* A message is kept as what was posted: id, channel, author, body, timestamp.
RECURSIVE ClientView(_, _)
ClientView(view, sent) ==
  IF sent = << >> THEN view
  ELSE LET env == Head(sent).env
           held == { view[i].id : i \in 1..Len(view) }
           next == IF env.type = "history" THEN PostedSeq(env.messages)
                   ELSE IF env.type = "message" /\ env.id \notin held
                        THEN Append(view, Posted(env))
                        ELSE view
       IN ClientView(next, Tail(sent))

\* C36: for a socket that is open with a session, the messages of the last
\* history envelope it got followed by the message envelopes with new ids it
\* got since are, in order, the stored messages of its current channel.  The
\* view is set by the history envelope of a join or a switch and has to be
\* kept by every handler run: starting from the stored messages of the channel
\* the socket is in (or from nothing, when it has no session yet), the
\* envelopes a run sends it lead to the stored messages of the channel the run
\* leaves it in.
C36_ClientViewIsHistory ==
  \A x \in Runs : \A c \in DOMAIN x.res.clients :
    x.res.readyState[c] = "OPEN" =>
      LET before == IF c \in DOMAIN clients
                    THEN PostedSeq(messagesByChannel[clients[c].channel])
                    ELSE << >>
      IN ClientView(before, SentTo(x.res.sends, c))
           = PostedSeq(x.res.messagesByChannel[x.res.clients[c].channel])

\* C37: no envelope goes to a socket that is not open.  Every envelope a
\* handler run sends, by a direct send or by a broadcast to a channel, to a
\* thread or to all, goes to a socket that is open when the run ends; a run of
\* the close handler leaves its socket closed, so the leave it broadcasts does
\* not go to the closing socket, and it sends nothing to any closed socket.
C37_OnlyToOpen ==
  \A x \in Runs :
    /\ \A i \in 1..Len(x.res.sends) :
         x.res.readyState[x.res.sends[i].to] = "OPEN"
    /\ x.type = "close" =>
         /\ x.res.readyState[x.ws] = "CLOSED"
         /\ SentTo(x.res.sends, x.ws) = << >>

\* C37 witness: the second socket had a session under "bob" in "dev", so its
\* close broadcast a leave there, and is now closed and unregistered; the
\* first socket is still open with a session, so broadcasts go on.
C37_Witness ==
  /\ readyState[Handles[2]] = "CLOSED"
  /\ Handles[2] \notin DOMAIN clients
  /\ Dev \in channels
  /\ Handles[1] \in OpenSessions
  /\ clients[Handles[1]].channel = Dev

C39_ThreadsHaveParents ==
  /\ \A t \in DOMAIN threadMessages :
       t \in StoredIds /\ Len(threadMessages[t]) > 0
  /\ \A x \in Runs :
       /\ DOMAIN threadMessages \subseteq DOMAIN x.res.threadMessages
       /\ \A t \in DOMAIN x.res.threadMessages \ DOMAIN threadMessages :
            /\ x.type = "thread_message"
            /\ x.ws \in DOMAIN clients
            /\ t \in { M.id : M \in MessagesOf(clients[x.ws].channel) }
            /\ Len(x.res.threadMessages[t]) = 1

\* C39 witness: the thread store has a key whose parent is stored in "dev",
\* with one reply in its list.
C39_Witness ==
  /\ Dev \in DOMAIN messagesByChannel
  /\ \E t \in DOMAIN threadMessages :
       /\ t \in { M.id : M \in MessagesOf(Dev) }
       /\ Len(threadMessages[t]) = 1
====
